---- MODULE Spec2Model ----
(***************************************************************************)
(* The asset_reader load pipeline of runtime/assets/asset_reader.cpp:      *)
(* load_from_file<texture|shader|mesh|material|prefab|scene> and           *)
(* load_from_memory<shader>, run on a two-lane task system (worker lane    *)
(* and main lane).  Every load is a Fetch task (read_memory_func) followed *)
(* by a Materialize task (create_resource_func).                           *)
(***************************************************************************)
EXTENDS Integers, Sequences, FiniteSets, TLC

\* ---------------------------------------------------------------- bounds
MaxReq == 2          \* load requests issued in one behaviour
NumWorkers == 2      \* threads of the worker lane
MaxUniforms == 2     \* largest reflected uniform count the binding layer reports
NumCells == 2        \* handle cells the caller owns

\* ---------------------------------------------------------------- inputs
FileKinds == {"texture", "shader", "mesh", "material", "prefab", "scene"}
Modes == {"async", "sync"}
Keys == {"foo", "bar"}
Cells == 1 .. NumCells
Reqs == 1 .. MaxReq
\* load_from_memory builds its own handle: request r owns cell NumCells + r
AllCells == 1 .. (NumCells + MaxReq)
MeshStatuses == {"prepared", "unprepared"}

\* ---------------------------------------------------------------- values
NullAsset == [kind |-> "null", from |-> 0, mem |-> <<>>, uniforms |-> <<>>]
EmptyLink == [id |-> "", asset |-> NullAsset]
\* a cell that already holds a resource loaded earlier (the reload case)
PriorLink == [id |-> "old", asset |-> [kind |-> "prior", from |-> 0, mem |-> <<9>>, uniforms |-> <<>>]]
NoTask == [st |-> "none", lane |-> "none", thread |-> "none", awaits |-> FALSE]
NoBuf == [data |-> <<>>, steps |-> <<>>, status |-> "none", fetchRef |-> FALSE, createRef |-> FALSE]
\* the buffer both closures capture, as load_from_file creates it
FreshBuf == [data |-> <<>>, steps |-> <<>>, status |-> "none", fetchRef |-> TRUE, createRef |-> TRUE]
NotSeen == [runs |-> 0, fetchReady |-> FALSE, buf |-> NoBuf, wrote |-> FALSE, reflected |-> 0, ops |-> <<>>]
NoLog == [ready |-> <<>>, exec |-> <<>>]

VARIABLES
    reqs,        \* the load calls made so far, in call order
    link,        \* the handle cells: link[c] = [id, asset]
    buf,         \* per request: read_memory / wrapper shared by the two closures
    fetchT,      \* per request: the Fetch task (ready_memory_task)
    createT,     \* per request: the Materialize task (create_resource_task)
    mainQ,       \* main lane: runnable items, in the order they became runnable
    draining,    \* the main thread is inside a drain of the main lane
    everDrained, \* a drain of the main lane has begun at least once
    gfxLog,      \* graphics-API calls made so far: [call, thread, drain]
    seen,        \* per request: what create_resource_func observed and did when it ran
    mainLog,     \* main-lane items in the order they became ready / were started
    cam          \* one Camera object: its fields, and the calls made on it so far

pipeline == <<reqs, link, buf, fetchT, createT, mainQ, draining, everDrained, gfxLog, seen, mainLog>>
vars == <<reqs, link, buf, fetchT, createT, mainQ, draining, everDrained, gfxLog, seen, mainLog, cam>>

\* the compiled files on disk: "foo" exists with bytes, "bar" is missing
ReadStream(key) == IF key = "foo" THEN <<1, 2>> ELSE <<>>

\* ------------------------------------------------- Fetch (read_memory_func)
BuilderSteps == <<"prepare_mesh", "set_vertex_source", "add_primitives", "bind_skin", "bind_armature", "end_prepare">>

\* texture, shader, prefab, scene: the bytes of the compiled file are stored
\* into *read_memory; the closure's own pointer is checked first
ReadMemoryFunc_bytes(key, b) ==
    IF ~b.fetchRef THEN b ELSE [b EXCEPT !.data = ReadStream(key)]

\* mesh: the document is decoded into load_data and fed to wrapper->mesh
ReadMemoryFunc_mesh(key, b) ==
    [b EXCEPT !.data = ReadStream(key), !.steps = b.steps \o BuilderSteps]

\* material: the document is decoded into wrapper->material
ReadMemoryFunc_material(key, b) ==
    [b EXCEPT !.data = ReadStream(key)]

ReadMemoryFunc(kind, key, b) ==
    CASE kind = "mesh" -> ReadMemoryFunc_mesh(key, b)
      [] kind = "material" -> ReadMemoryFunc_material(key, b)
      [] OTHER -> ReadMemoryFunc_bytes(key, b)

\* ------------------------------------------ Materialize (create_resource_func)
\* Each returns the handle cell as left by the closure, the buffer as left by
\* it, and the operations it performed, in program order.
Out(h, b, calls) == [handle |-> h, buf |-> b, calls |-> calls]
\* the operations that are calls into the graphics API
GfxApi == {"gfx::copy", "texture::texture", "shader::populate", "gfx::getShaderUniforms", "build_vb", "build_ib"}
Asset(kind, r, mem, uniforms) == [kind |-> kind, from |-> r, mem |-> mem, uniforms |-> uniforms]
\* the uniform handles the reflection query returns, in its order
Reflected(n) == [i \in 1 .. n |-> 10 + i]

\* (variant: the id is assigned before the native memory is tested)
CreateResourceFunc_texture_idfirst(r, key, b, h, memOk) ==
    IF ~b.createRef THEN Out(h, b, <<>>)
    ELSE IF b.data = <<>> THEN Out(h, b, <<>>)
    ELSE LET b2 == [b EXCEPT !.data = <<>>, !.createRef = FALSE] IN
         IF memOk
         THEN Out([id |-> key, asset |-> Asset("texture", r, b.data, <<>>)], b2,
                  <<"gfx::copy", "clear", "reset", "texture::texture", "write">>)
         ELSE Out([h EXCEPT !.id = key], b2, <<"gfx::copy", "clear", "reset", "write">>)

\* (variant: the "nothing was read" test is dropped)
CreateResourceFunc_texture_nocheck(r, key, b, h, memOk) ==
    IF ~b.createRef THEN Out(h, b, <<>>)
    ELSE LET b2 == [b EXCEPT !.data = <<>>, !.createRef = FALSE] IN
         IF memOk
         THEN Out([id |-> key, asset |-> Asset("texture", r, b.data, <<>>)], b2,
                  <<"gfx::copy", "clear", "reset", "texture::texture", "write">>)
         ELSE Out(h, b2, <<"gfx::copy", "clear", "reset">>)

CreateResourceFunc_texture(r, key, b, h, memOk) ==
    IF ~b.createRef THEN Out(h, b, <<>>)
    ELSE IF b.data = <<>> THEN Out(h, b, <<>>)
    ELSE LET b2 == [b EXCEPT !.data = <<>>, !.createRef = FALSE] IN
         IF memOk
         THEN Out([id |-> key, asset |-> Asset("texture", r, b.data, <<>>)], b2,
                  <<"gfx::copy", "clear", "reset", "texture::texture", "write">>)
         ELSE Out(h, b2, <<"gfx::copy", "clear", "reset">>)

\* uniform::populate(handle): the uniform object made for one reflected handle
Populate(uni) == [handle |-> uni]

\* the loop over the reflected handles: one uniform object pushed per handle
RECURSIVE PushUniforms(_, _)
PushUniforms(handles, acc) ==
    IF handles = <<>> THEN acc
    ELSE PushUniforms(Tail(handles), Append(acc, Populate(Head(handles))))

\* (variant: the loop starts at the second reflected handle)
ShaderUniforms_skipfirst(n) ==
    IF n > 0 THEN PushUniforms(Tail(Reflected(n)), <<>>) ELSE <<>>

\* the uniform list built by the reflection block of the shader closures
ShaderUniforms(n) ==
    IF n > 0 THEN PushUniforms(Reflected(n), <<>>) ELSE <<>>

\* (variant: the shader is built from the buffer, which is cleared and
\* released only afterwards, and only when the build succeeded)
CreateResourceFunc_shader_late(r, key, b, h, memOk, n) ==
    IF ~b.createRef THEN Out(h, b, <<>>)
    ELSE IF b.data = <<>> THEN Out(h, b, <<>>)
    ELSE IF memOk
         THEN Out([id |-> key, asset |-> Asset("shader", r, b.data, ShaderUniforms(n))],
                  [b EXCEPT !.data = <<>>, !.createRef = FALSE],
                  <<"gfx::copy", "shader::populate", "gfx::getShaderUniforms", "write", "clear", "reset">>)
         ELSE Out(h, b, <<"gfx::copy">>)

CreateResourceFunc_shader(r, key, b, h, memOk, n) ==
    IF ~b.createRef THEN Out(h, b, <<>>)
    ELSE IF b.data = <<>> THEN Out(h, b, <<>>)
    ELSE LET b2 == [b EXCEPT !.data = <<>>, !.createRef = FALSE] IN
         IF memOk
         THEN Out([id |-> key, asset |-> Asset("shader", r, b.data, ShaderUniforms(n))], b2,
                  <<"gfx::copy", "clear", "reset", "shader::populate", "gfx::getShaderUniforms", "write">>)
         ELSE Out(h, b2, <<"gfx::copy", "clear", "reset">>)

\* (variant: the status test is dropped)
MeshPublishes_always(status) == TRUE

\* the status test that guards the publication of a mesh
MeshPublishes(status) == status = "prepared"

CreateResourceFunc_mesh(r, key, b, h, status) ==
    LET b2 == [b EXCEPT !.steps = b.steps \o <<"build_vb", "build_ib">>, !.status = status,
                        !.createRef = FALSE] IN
    IF MeshPublishes(status)
    THEN Out([id |-> key, asset |-> Asset("mesh", r, b.data, <<>>)], b2,
             <<"build_vb", "build_ib", "get_status", "write", "reset">>)
    ELSE Out(h, b2, <<"build_vb", "build_ib", "get_status", "reset">>)

CreateResourceFunc_material(r, key, b, h) ==
    Out([id |-> key, asset |-> Asset("material", r, b.data, <<>>)], [b EXCEPT !.createRef = FALSE], <<"write", "reset">>)

\* prefab and scene: the stream is wrapped in the resource object
CreateResourceFunc_stream(kind, r, key, b, h) ==
    Out([id |-> key, asset |-> Asset(kind, r, b.data, <<>>)], b, <<"write">>)

\* load_from_memory<shader>: the early return on "nothing was read"
MemoryNothingRead(data, size) == (~data) /\ size = 0

CreateResourceFunc_memory(r, keyRead, data, size, h, memOk, n) ==
    IF MemoryNothingRead(data, size) THEN Out(h, NoBuf, <<>>)
    ELSE IF memOk
         THEN Out([id |-> keyRead, asset |-> Asset("shader", r, [i \in 1 .. size |-> 7], ShaderUniforms(n))], NoBuf,
                  <<"gfx::copy", "shader::populate", "gfx::getShaderUniforms", "write">>)
         ELSE Out(h, NoBuf, <<"gfx::copy">>)

CreateResourceFunc(q, r, b, h, memOk, status, n, keyRead) ==
    CASE q.entry = "memory" -> CreateResourceFunc_memory(r, keyRead, q.data, q.size, h, memOk, n)
      [] q.kind = "texture" -> CreateResourceFunc_texture(r, q.key, b, h, memOk)
      [] q.kind = "shader" -> CreateResourceFunc_shader(r, q.key, b, h, memOk, n)
      [] q.kind = "mesh" -> CreateResourceFunc_mesh(r, q.key, b, h, status)
      [] q.kind = "material" -> CreateResourceFunc_material(r, q.key, b, h)
      [] OTHER -> CreateResourceFunc_stream(q.kind, r, q.key, b, h)

\* ------------------------------------------------------------ task system
\* A task: st is none | waiting | queued | running | ready; lane is the lane it
\* was submitted to; thread is the thread that picked it up.
PushReady == [st |-> "queued", lane |-> "worker", thread |-> "none", awaits |-> FALSE]
PushReadyOnMain == [st |-> "queued", lane |-> "main", thread |-> "none", awaits |-> FALSE]
PushAwaitableOnMain == [st |-> "waiting", lane |-> "main", thread |-> "none", awaits |-> TRUE]
PushAwaitable == [st |-> "waiting", lane |-> "worker", thread |-> "none", awaits |-> TRUE]

TaskId(r, stage) == [r |-> r, stage |-> stage]
\* a continuation becomes runnable when the future it awaits becomes ready
Woken(task) == IF task.st = "waiting" THEN [task EXCEPT !.st = "queued"] ELSE task

\* a main-lane item is queued on the main lane when it becomes runnable
QueueOnMain(q, id, task) ==
    IF task.st = "queued" /\ task.lane = "main" THEN Append(q, id) ELSE q

\* a main-lane item with no antecedent is ready as soon as it is submitted
ReadyAtSubmit(log, id, task) ==
    IF task.lane = "main" /\ ~task.awaits THEN [log EXCEPT !.ready = Append(@, id)] ELSE log

\* a main-lane continuation is ready once the future it awaits is ready
ReadyAfter(log, id, task) ==
    IF task.lane = "main" THEN [log EXCEPT !.ready = Append(@, id)] ELSE log

\* ------------------------------------------------- load_from_file, per mode
\* (variant: Fetch goes to the worker lane in both modes)
FetchSubmit_worker(mode) == PushReady

\* (variant: the synchronous branch builds the Fetch task and never pushes it)
FetchSubmit_unpushed(mode) ==
    IF mode = "async" THEN PushReady ELSE NoTask

\* (variant: the asynchronous branch chains with the worker-lane primitive)
MaterializeSubmit_worker(mode) ==
    IF mode = "async" THEN PushAwaitable ELSE PushAwaitableOnMain

\* (variant: Materialize is pushed on the main lane without the Fetch future)
MaterializeSubmit_unchained(mode) == PushReadyOnMain

FetchSubmit(mode) ==
    IF mode = "async" THEN PushReady ELSE PushReadyOnMain

MaterializeSubmit(mode) ==
    PushAwaitableOnMain

MemorySubmit ==
    PushReadyOnMain

\* ------------------------------------------------------------ Camera
\* Scalars are integers: clip distances in tenths of a unit, the field of view
\* in degrees, the zoom factor in ten-thousandths, jitter in sixteenths.
MaxCalls == 6
ProjectionModes == {"Perspective", "Orthographic"}
Fovs == {60, 90}
Dists == {0, 1, 10000, 20000}
Zooms == {0, 10000, 300000000}
Aspects == {1, 2}
Windows == {<<0, 0, 0, 0>>, <<0, 0, 4, 2>>}
Views == {"identity", "eyeA", "eyeB"}
ViewportSizes == {<<2, 2>>, <<4, 2>>}
SubpixelIndices == {0, 1}
SampleCounts == {1, 2}
MinZoomFactor == 1
MaxZoomFactor == 200000000
IdentityMatrix == [kind |-> "identity", fov |-> 0, aspect |-> 0, near |-> 0, far |-> 0,
                   window |-> <<0, 0, 0, 0>>, zoom |-> 0, aa |-> <<0, 0>>]
NoFrustum == [view |-> "none", proj |-> IdentityMatrix]

\* the volume between the camera position and the near plane of a frustum
ClippingVolume(frustum) == [nearOf |-> frustum]

\* math::perspective(fov, aspect, near, far), then the jitter added to [2][0], [2][1]
Perspective(c) ==
    [kind |-> "Perspective", fov |-> c.mFOV, aspect |-> c.mAspectRatio,
     near |-> c.mNearClip, far |-> c.mFarClip,
     window |-> <<0, 0, 0, 0>>, zoom |-> 0, aa |-> <<c.mAAData[3], c.mAAData[4]>>]

\* math::ortho(window * zoom, near, far), then the jitter added to [2][0], [2][1]
Ortho(c) ==
    [kind |-> "Orthographic", fov |-> 0, aspect |-> 0,
     near |-> c.mNearClip, far |-> c.mFarClip,
     window |-> c.mProjectionWindow, zoom |-> c.mZoomFactor, aa |-> <<c.mAAData[3], c.mAAData[4]>>]

\* the matrix that belongs to the camera's current settings
CurrentProj(c) == IF c.mProjectionMode = "Perspective" THEN Perspective(c) ELSE Ortho(c)

\* math::frustum::update(view, proj)
Frustum(view, proj) == [view |-> view, proj |-> proj]

\* Camera::Camera()
NewCamera ==
    [mProjectionMode |-> "Perspective", mFOV |-> 60, mNearClip |-> 1, mFarClip |-> 10000,
     mProjectionWindow |-> <<0, 0, 0, 0>>, mZoomFactor |-> 10000, mAspectRatio |-> 1,
     mViewDirty |-> TRUE, mProjectionDirty |-> TRUE, mAspectDirty |-> TRUE, mFrustumDirty |-> TRUE,
     mFrustumLocked |-> FALSE, mAspectLocked |-> FALSE, mAAData |-> <<0, 0, 0, 0>>,
     mView |-> "identity", mProj |-> IdentityMatrix, mFrustum |-> NoFrustum,
     mClippingVolume |-> ClippingVolume(NoFrustum), mViewportSize |-> <<0, 0>>,
     calls |-> 0]

onModified(c) ==
    [c EXCEPT !.mViewDirty = TRUE, !.mProjectionDirty = TRUE, !.mFrustumDirty = TRUE]

\* (variant: only the lower bound is enforced)
setZoomFactor_lowonly(c, fZoom) ==
    LET clamped == IF fZoom < MinZoomFactor THEN MinZoomFactor ELSE fZoom
    IN onModified([c EXCEPT !.mZoomFactor = clamped])

setZoomFactor(c, fZoom) ==
    LET clamped == IF fZoom < MinZoomFactor THEN MinZoomFactor
                   ELSE IF fZoom > MaxZoomFactor THEN MaxZoomFactor ELSE fZoom
    IN onModified([c EXCEPT !.mZoomFactor = clamped])

\* (variant: no test for an unchanged value)
setFOV_always(c, fFOVY) == onModified([c EXCEPT !.mFOV = fFOVY])

setFOV(c, fFOVY) ==
    IF fFOVY = c.mFOV THEN c ELSE onModified([c EXCEPT !.mFOV = fFOVY])

setProjectionWindow(c, rect) ==
    onModified([c EXCEPT !.mProjectionWindow = rect])

setProjectionMode(c, Mode) ==
    IF Mode = c.mProjectionMode THEN c ELSE onModified([c EXCEPT !.mProjectionMode = Mode])

RECURSIVE setNearClip(_, _)
RECURSIVE setFarClip(_, _)
setNearClip(c, fDistance) ==
    IF fDistance = c.mNearClip THEN c
    ELSE LET c1 == onModified([c EXCEPT !.mNearClip = fDistance])
         IN IF c1.mNearClip > c1.mFarClip THEN setFarClip(c1, c1.mNearClip) ELSE c1

\* (variant: the far plane is stored without looking at the near plane)
setFarClip_unclamped(c, fDistance) ==
    IF fDistance = c.mFarClip THEN c
    ELSE onModified([c EXCEPT !.mFarClip = fDistance])

setFarClip(c, fDistance) ==
    IF fDistance = c.mFarClip THEN c
    ELSE LET c1 == onModified([c EXCEPT !.mFarClip = fDistance])
         IN IF c1.mNearClip > c1.mFarClip THEN setNearClip(c1, c1.mFarClip) ELSE c1

lockFrustum(c, Locked) == [c EXCEPT !.mFrustumLocked = Locked]

setAspectRatio(c, fAspect, bLocked) ==
    IF fAspect = c.mAspectRatio THEN [c EXCEPT !.mAspectLocked = bLocked]
    ELSE [c EXCEPT !.mAspectRatio = fAspect, !.mAspectLocked = bLocked,
                   !.mAspectDirty = TRUE, !.mFrustumDirty = TRUE, !.mProjectionDirty = TRUE]

\* (variant: the perspective branch looks at the aspect flag first)
getProj_aspectfirst(c) ==
    IF c.mProjectionMode = "Perspective"
    THEN IF c.mAspectDirty
         THEN [c EXCEPT !.mProj = [c.mProj EXCEPT !.aspect = c.mAspectRatio], !.mAspectDirty = FALSE]
         ELSE IF c.mProjectionDirty
              THEN [c EXCEPT !.mProj = Perspective(c), !.mProjectionDirty = FALSE, !.mAspectDirty = FALSE]
              ELSE c
    ELSE IF c.mProjectionDirty \/ c.mAspectDirty
         THEN [c EXCEPT !.mProj = Ortho(c), !.mProjectionDirty = FALSE, !.mAspectDirty = FALSE]
         ELSE c

\* getProj(): the matrix it returns is the mProj field of the result
getProj(c) ==
    IF c.mProjectionMode = "Perspective"
    THEN IF c.mProjectionDirty
         THEN [c EXCEPT !.mProj = Perspective(c), !.mProjectionDirty = FALSE, !.mAspectDirty = FALSE]
         ELSE IF c.mAspectDirty
              THEN [c EXCEPT !.mProj = [c.mProj EXCEPT !.aspect = c.mAspectRatio], !.mAspectDirty = FALSE]
              ELSE c
    ELSE IF c.mProjectionDirty \/ c.mAspectDirty
         THEN [c EXCEPT !.mProj = Ortho(c), !.mProjectionDirty = FALSE, !.mAspectDirty = FALSE]
         ELSE c

getView(c) == c

lookAt(c, vEye) == onModified([c EXCEPT !.mView = vEye])

\* (variant: the lock is not looked at)
getFrustum_unlocked(c) ==
    IF c.mFrustumDirty
    THEN LET c1 == getProj(getView(c))
             f == Frustum(c1.mView, c1.mProj)
         IN [c1 EXCEPT !.mFrustum = f, !.mFrustumDirty = FALSE, !.mClippingVolume = ClippingVolume(f)]
    ELSE c

\* getFrustum(): the frustum it returns is the mFrustum field of the result
getFrustum(c) ==
    IF c.mFrustumDirty /\ ~c.mFrustumLocked
    THEN LET c1 == getProj(getView(c))
             f == Frustum(c1.mView, c1.mProj)
         IN [c1 EXCEPT !.mFrustum = f, !.mFrustumDirty = FALSE, !.mClippingVolume = ClippingVolume(f)]
    ELSE c

\* getClippingVolume(): the volume it returns is the mClippingVolume field of the result
getClippingVolume(c) ==
    IF c.mFrustumDirty /\ ~c.mFrustumLocked THEN getFrustum(c) ELSE c

\* the depth of the world origin along the look vector of a view, in units
ViewDepth(view) ==
    CASE view = "eyeA" -> 9
      [] view = "eyeB" -> -3
      [] OTHER -> 0

\* estimateZoomFactor(ViewportSize, origin): depth / (height * (45 / fov)), in
\* ten-thousandths; std::min with the largest float leaves it as it is
estimateZoomFactor(c, ViewportSize) ==
    (ViewDepth(getView(c).mView) * 10000 * c.mFOV) \div (ViewportSize[2] * 45)

setViewportSize(c, viewportSize) ==
    LET c0 == [c EXCEPT !.mViewportSize = viewportSize]
        c1 == setAspectRatio(c0, viewportSize[1] \div viewportSize[2], FALSE)
        rect == <<-(viewportSize[1] \div 2), viewportSize[2] \div 2,
                  viewportSize[1] \div 2, -(viewportSize[2] \div 2)>>
        c2 == setProjectionWindow(c1, rect)
    IN setZoomFactor(c2, estimateZoomFactor(c2, viewportSize))

\* the two-sample jitter pattern, in sixteenths
SamplesX(Index) == IF Index = 0 THEN -4 ELSE 4
SamplesY(Index) == IF Index = 0 THEN 4 ELSE -4

setAAData(c, currentSubpixelIndex, temporalAASamples) ==
    LET data == IF temporalAASamples > 1
                THEN <<currentSubpixelIndex, temporalAASamples,
                       SamplesX(currentSubpixelIndex), SamplesY(currentSubpixelIndex)>>
                ELSE <<0, 0, 0, 0>>
    IN [c EXCEPT !.mAAData = data, !.mProjectionDirty = TRUE]

\* ---------------------------------------------------------------- state
\* the caller's last handle holds a resource loaded earlier, the others are new
InitLink(c) == IF c = NumCells THEN PriorLink ELSE EmptyLink

Init ==
    /\ reqs = <<>>
    /\ link = [c \in AllCells |-> InitLink(c)]
    /\ buf = [r \in Reqs |-> NoBuf]
    /\ fetchT = [r \in Reqs |-> NoTask]
    /\ createT = [r \in Reqs |-> NoTask]
    /\ mainQ = <<>>
    /\ draining = FALSE
    /\ everDrained = FALSE
    /\ gfxLog = {}
    /\ seen = [r \in Reqs |-> NotSeen]
    /\ mainLog = NoLog
    /\ cam = NewCamera

Issued == 1 .. Len(reqs)
MainBusy == \E r \in Reqs : (fetchT[r].st = "running" /\ fetchT[r].thread = "main")
                            \/ (createT[r].st = "running" /\ createT[r].thread = "main")
WorkerRunning == {r \in Reqs : fetchT[r].st = "running" /\ fetchT[r].thread = "worker"}
WorkerRunningCreate == {r \in Reqs : createT[r].st = "running" /\ createT[r].thread = "worker"}
WorkersBusy == Cardinality(WorkerRunning) + Cardinality(WorkerRunningCreate)

\* asset_reader::load_from_file<kind>(key, mode, original), original.link = cell
LoadFromFile(kind, key, mode, cell) ==
    /\ Len(reqs) < MaxReq
    /\ ~draining
    /\ LET r == Len(reqs) + 1
           ft == FetchSubmit(mode)
           ct == MaterializeSubmit(mode)
       IN /\ reqs' = Append(reqs, [entry |-> "file", kind |-> kind, key |-> key, mode |-> mode,
                                   cell |-> cell, data |-> FALSE, size |-> 0, orig |-> link[cell]])
          /\ buf' = [buf EXCEPT ![r] = FreshBuf]
          /\ fetchT' = [fetchT EXCEPT ![r] = ft]
          /\ createT' = [createT EXCEPT ![r] = ct]
          /\ mainQ' = QueueOnMain(QueueOnMain(mainQ, TaskId(r, "fetch"), ft), TaskId(r, "create"), ct)
          /\ mainLog' = ReadyAtSubmit(mainLog, TaskId(r, "fetch"), ft)
    /\ UNCHANGED <<link, draining, everDrained, gfxLog, seen, cam>>

\* asset_reader::load_from_memory<shader>(key, data, size): data is "non-null"
LoadFromMemory(key, data, size) ==
    /\ Len(reqs) < MaxReq
    /\ ~draining
    /\ LET r == Len(reqs) + 1
           ct == MemorySubmit
       IN /\ reqs' = Append(reqs, [entry |-> "memory", kind |-> "shader", key |-> key, mode |-> "memory",
                                   cell |-> NumCells + r, data |-> data, size |-> size,
                                   orig |-> link[NumCells + r]])
          /\ createT' = [createT EXCEPT ![r] = ct]
          /\ mainQ' = QueueOnMain(mainQ, TaskId(r, "create"), ct)
          /\ mainLog' = ReadyAtSubmit(mainLog, TaskId(r, "create"), ct)
    /\ UNCHANGED <<link, buf, fetchT, draining, everDrained, gfxLog, seen, cam>>

\* the body of read_memory_func runs to its end; the future of the
\* Fetch task becomes ready and its continuation becomes runnable
RunFetch(r) ==
    LET woken == Woken(createT[r]) IN
    /\ buf' = [buf EXCEPT ![r] = ReadMemoryFunc(reqs[r].kind, reqs[r].key, @)]
    /\ fetchT' = [fetchT EXCEPT ![r].st = "ready"]
    /\ createT' = [createT EXCEPT ![r] = woken]
    /\ mainQ' = IF createT[r].st = "waiting" THEN QueueOnMain(mainQ, TaskId(r, "create"), woken) ELSE mainQ
    /\ mainLog' = ReadyAfter(mainLog, TaskId(r, "create"), createT[r])
    /\ UNCHANGED <<reqs, link, draining, everDrained, gfxLog, seen, cam>>

\* what `key` yields when create_resource_func reads it: load_from_memory
\* captures the caller's string by reference and runs after the call returned
KeyReads(q) == IF q.entry = "memory" THEN {q.key, "<dangling>"} ELSE {q.key}

\* (variant: the closure publishes into a link of its own)
TargetCell_fresh(q, r) == NumCells + r

\* the cell create_resource_func writes: result.link is the link of `original`
TargetCell(q, r) == q.cell

\* the body of create_resource_func runs to its end on `thread`
RunCreate(r, thread) ==
    \E memOk \in BOOLEAN, status \in MeshStatuses, n \in 0 .. MaxUniforms, keyRead \in KeyReads(reqs[r]) :
      LET q == reqs[r]
          c == TargetCell(q, r)
          res == CreateResourceFunc(q, r, buf[r], link[c], memOk, status, n, keyRead)
          gfx == {res.calls[i] : i \in 1 .. Len(res.calls)} \cap GfxApi
      IN /\ link' = [link EXCEPT ![c] = res.handle]
         /\ buf' = [buf EXCEPT ![r] = res.buf]
         /\ gfxLog' = gfxLog \cup {[call |-> g, thread |-> thread, drain |-> draining] : g \in gfx}
         /\ seen' = [seen EXCEPT ![r] = [runs |-> @.runs + 1,
                                         fetchReady |-> (q.entry = "memory" \/ fetchT[r].st = "ready"),
                                         buf |-> buf[r],
                                         wrote |-> (res.handle # link[c]),
                                         reflected |-> (IF res.handle # link[c] /\ q.kind = "shader" THEN n ELSE 0),
                                         ops |-> res.calls]]
         /\ createT' = [createT EXCEPT ![r].st = "ready"]
         /\ UNCHANGED <<reqs, fetchT, mainQ, draining, everDrained, mainLog, cam>>

\* a worker thread takes a queued worker-lane item
WorkerBegin(r) ==
    /\ r \in Issued
    /\ WorkersBusy < NumWorkers
    /\ IF fetchT[r].st = "queued" /\ fetchT[r].lane = "worker"
       THEN /\ fetchT' = [fetchT EXCEPT ![r].st = "running", ![r].thread = "worker"]
            /\ UNCHANGED createT
       ELSE /\ createT[r].st = "queued" /\ createT[r].lane = "worker"
            /\ createT' = [createT EXCEPT ![r].st = "running", ![r].thread = "worker"]
            /\ UNCHANGED fetchT
    /\ UNCHANGED <<reqs, link, buf, mainQ, draining, everDrained, gfxLog, seen, mainLog, cam>>

\* a worker thread finishes the item it runs
WorkerEnd(r) ==
    /\ r \in Issued
    /\ IF r \in WorkerRunning
       THEN RunFetch(r)
       ELSE r \in WorkerRunningCreate /\ RunCreate(r, "worker")

\* the driver loop enters drain_main_lane on the main thread
DrainBegin ==
    /\ ~draining
    /\ draining' = TRUE
    /\ everDrained' = TRUE
    /\ UNCHANGED <<reqs, link, buf, fetchT, createT, mainQ, gfxLog, seen, mainLog, cam>>

\* the drain takes the first runnable item of the main lane
MainBegin ==
    /\ draining
    /\ ~MainBusy
    /\ mainQ # <<>>
    /\ LET id == Head(mainQ) IN
       /\ mainQ' = Tail(mainQ)
       /\ mainLog' = [mainLog EXCEPT !.exec = Append(@, id)]
       /\ IF id.stage = "fetch"
          THEN /\ fetchT' = [fetchT EXCEPT ![id.r].st = "running", ![id.r].thread = "main"]
               /\ UNCHANGED createT
          ELSE /\ createT' = [createT EXCEPT ![id.r].st = "running", ![id.r].thread = "main"]
               /\ UNCHANGED fetchT
    /\ UNCHANGED <<reqs, link, buf, draining, everDrained, gfxLog, seen, cam>>

\* the main thread finishes the item it runs
MainEnd(r) ==
    /\ r \in Issued
    /\ IF fetchT[r].st = "running" /\ fetchT[r].thread = "main"
       THEN RunFetch(r)
       ELSE createT[r].st = "running" /\ createT[r].thread = "main" /\ RunCreate(r, "main")

\* the drain returns once no runnable item is left
DrainEnd ==
    /\ draining
    /\ ~MainBusy
    /\ mainQ = <<>>
    /\ draining' = FALSE
    /\ UNCHANGED <<reqs, link, buf, fetchT, createT, mainQ, everDrained, gfxLog, seen, mainLog, cam>>

Next ==
    \/ \E kind \in FileKinds, key \in Keys, mode \in Modes, cell \in Cells : LoadFromFile(kind, key, mode, cell)
    \/ \E key \in Keys, data \in BOOLEAN, size \in {0, 2} : LoadFromMemory(key, data, size)
    \/ \E r \in Reqs : WorkerBegin(r)
    \/ \E r \in Reqs : WorkerEnd(r)
    \/ DrainBegin
    \/ MainBegin
    \/ \E r \in Reqs : MainEnd(r)
    \/ DrainEnd

Spec == Init /\ [][Next]_vars

\* the scheduling the claims about progress assume: worker threads keep taking
\* and finishing items, and the driver loop drains the main lane again and again
FairSpec ==
    /\ Spec
    /\ WF_vars(\E r \in Reqs : WorkerBegin(r))
    /\ WF_vars(\E r \in Reqs : WorkerEnd(r))
    /\ WF_vars(DrainBegin)
    /\ WF_vars(MainBegin)
    /\ WF_vars(\E r \in Reqs : MainEnd(r))
    /\ WF_vars(DrainEnd)

\* ---------------------------------------------------------------- properties
IsFile(r) == r \in Issued /\ reqs[r].entry = "file"
IsAsync(r) == IsFile(r) /\ reqs[r].mode = "async"
IsSync(r) == IsFile(r) /\ reqs[r].mode = "sync"
\* the step in which the Materialize stage of request r runs to its end
Materializes(r) == r \in Issued /\ createT[r].st = "running" /\ createT'[r].st = "ready"
GfxKinds == {"texture", "shader", "mesh"}

\* C1: every Materialize stage, and so every graphics-API call, of every
\* load_from_file kind and of load_from_memory<shader> runs on the main thread
\* while the main lane is being drained, never on a worker thread.
C1_MaterializeOnlyOnMainLane ==
    /\ \A g \in gfxLog : g.thread = "main" /\ g.drain
    /\ \A r \in Reqs : createT[r].thread \in {"none", "main"}
    /\ \A r \in Reqs : createT[r].st = "running" => draining

\* two asynchronous loads of different kinds are in flight together: one has
\* made its graphics calls while the Fetch of the other runs on a worker
C1_Witness ==
    \E r1 \in Issued, r2 \in Issued :
        /\ IsAsync(r1) /\ IsAsync(r2)
        /\ reqs[r1].kind # reqs[r2].kind
        /\ reqs[r1].kind \in GfxKinds
        /\ seen[r1].runs = 1
        /\ gfxLog # {}
        /\ fetchT[r2].st = "running" /\ fetchT[r2].thread = "worker"

\* C2: an asynchronous load_from_file returns without having run Materialize
\* and without touching the handle; a handle cell changes only in a step that
\* ends a Materialize stage inside a main-lane drain, after the Fetch of that
\* request is ready; with no drain ever, every cell keeps its initial content.
C2_AsyncHandleWaitsForDrain ==
    /\ [][\A r \in Reqs :
            (r \in 1 .. Len(reqs') /\ r \notin Issued /\ reqs'[r].mode = "async")
                => (link' = link /\ seen'[r].runs = 0 /\ createT'[r].st # "ready")]_vars
    /\ [][\A c \in AllCells :
            link'[c] # link[c]
                => /\ draining
                   /\ \E r \in Issued : /\ reqs[r].cell = c
                                        /\ Materializes(r)
                                        /\ (reqs[r].entry = "file" => fetchT[r].st = "ready")]_vars
    /\ [](~everDrained => \A c \in AllCells : link[c] = InitLink(c))

\* an asynchronous load has populated its handle in a drain
C2_Witness ==
    \E r \in Issued :
        /\ IsAsync(r)
        /\ createT[r].st = "ready"
        /\ everDrained
        /\ link[reqs[r].cell] # reqs[r].orig
        /\ link[reqs[r].cell].id = reqs[r].key

\* C3: the Materialize continuation of a load_from_file runs at most once, only
\* after its Fetch future is ready, and finds the buffer or record exactly as
\* the complete Fetch leaves it.
C3_ContinuationAfterFetch ==
    \A r \in Issued : reqs[r].entry = "file" =>
        /\ seen[r].runs <= 1
        /\ (createT[r].st = "ready" <=> seen[r].runs = 1)
        /\ (createT[r].st \in {"queued", "running", "ready"} => fetchT[r].st = "ready")
        /\ (seen[r].runs = 1 =>
               /\ seen[r].fetchReady
               /\ seen[r].buf = ReadMemoryFunc(reqs[r].kind, reqs[r].key, FreshBuf))

\* a continuation queued before its worker-lane Fetch ended has run and has
\* seen the bytes the Fetch read
C3_Witness ==
    \E r \in Issued :
        /\ IsAsync(r)
        /\ fetchT[r].thread = "worker"
        /\ seen[r].runs = 1
        /\ seen[r].buf.data # <<>>

\* C4: when the Fetch of a texture or shader load read zero bytes, the step
\* that runs Materialize leaves every handle cell as it was.
C4_EmptyFetchKeepsHandle ==
    [][\A r \in Reqs :
         (/\ Materializes(r)
          /\ reqs[r].entry = "file"
          /\ reqs[r].kind \in {"texture", "shader"}
          /\ fetchT[r].st = "ready"
          /\ buf[r].data = <<>>)
             => link' = link]_vars

\* a reload of a populated handle whose compiled file is missing has completed
\* and the handle still holds the previous id and resource
C4_Witness ==
    \E r \in Issued :
        /\ IsFile(r)
        /\ reqs[r].kind \in {"texture", "shader"}
        /\ reqs[r].key = "bar"
        /\ createT[r].st = "ready"
        /\ reqs[r].orig = PriorLink
        /\ link[reqs[r].cell] = PriorLink

\* C5: when the Fetch of a material, prefab or scene load produced nothing, the
\* step that runs Materialize leaves every handle cell as it was.
C5_EmptyFetchKeepsHandle ==
    [][\A r \in Reqs :
         (/\ Materializes(r)
          /\ reqs[r].entry = "file"
          /\ reqs[r].kind \in {"material", "prefab", "scene"}
          /\ fetchT[r].st = "ready"
          /\ buf[r].data = <<>>)
             => link' = link]_vars

\* C6: when a mesh ends build_vb and build_ib in a status other than prepared,
\* the step that runs Materialize leaves every handle cell as it was.
C6_UnpreparedMeshKeepsHandle ==
    [][\A r \in Reqs :
         (/\ Materializes(r)
          /\ reqs[r].entry = "file"
          /\ reqs[r].kind = "mesh"
          /\ buf'[r].status # "prepared")
             => link' = link]_vars

\* a mesh load ended unprepared on a populated handle, which is untouched
C6_Witness ==
    \E r \in Issued :
        /\ IsFile(r)
        /\ reqs[r].kind = "mesh"
        /\ createT[r].st = "ready"
        /\ buf[r].status = "unprepared"
        /\ buf[r].steps = BuilderSteps \o <<"build_vb", "build_ib">>
        /\ reqs[r].orig = PriorLink
        /\ link[reqs[r].cell] = PriorLink

\* C7: once a synchronous load_from_file of a texture key with valid compiled
\* bytes has returned, the handle's id is the key and its asset is a texture.
C7_SyncLoadDoneAtReturn ==
    \A r \in Issued :
        (IsSync(r) /\ reqs[r].kind = "texture" /\ ReadStream(reqs[r].key) # <<>>)
            => /\ link[reqs[r].cell].id = reqs[r].key
               /\ link[reqs[r].cell].asset.kind = "texture"

\* C8: the mode alone selects the lane of Fetch (synchronous: main lane, never
\* a worker thread; asynchronous: worker lane, never the main thread), and
\* Materialize is a main-lane continuation of that Fetch in both modes.
C8_ModeSelectsFetchLane ==
    \A r \in Issued : reqs[r].entry = "file" =>
        /\ fetchT[r].lane = (IF reqs[r].mode = "sync" THEN "main" ELSE "worker")
        /\ fetchT[r].thread \in {"none", fetchT[r].lane}
        /\ createT[r].lane = "main"
        /\ createT[r].awaits

\* a synchronous Fetch has run on the main thread and an asynchronous one on a
\* worker thread
C8_Witness ==
    \E r1 \in Issued, r2 \in Issued :
        /\ IsSync(r1) /\ fetchT[r1].st = "ready" /\ fetchT[r1].thread = "main"
        /\ IsAsync(r2) /\ fetchT[r2].st = "ready" /\ fetchT[r2].thread = "worker"
        /\ reqs[r1].kind # reqs[r2].kind

\* the items that belong to the main lane: every Materialize stage and every
\* Fetch stage of a synchronous load
MainLaneExecuting ==
    {TaskId(r, "create") : r \in {x \in Issued : createT[x].st = "running"}}
    \cup {TaskId(r, "fetch") : r \in {x \in Issued : IsSync(x) /\ fetchT[x].st = "running"}}

\* C9: at most one main-lane item (a Materialize stage, or the Fetch stage of a
\* synchronous load) is executing at any time.
C9_MainLaneItemsNeverOverlap ==
    Cardinality(MainLaneExecuting) <= 1

\* a worker-lane Fetch runs while a main-lane item runs
C9_Witness ==
    /\ Cardinality(MainLaneExecuting) = 1
    /\ \E r \in Issued : IsAsync(r) /\ fetchT[r].st = "running" /\ fetchT[r].thread = "worker"

\* C10: under fair scheduling of the worker threads and a main lane drained
\* again and again, the future returned by every load call becomes ready.
C10_EveryFutureBecomesReady ==
    \A r \in Reqs : (r \in Issued) ~> (createT[r].st = "ready")

\* the future of a load whose Fetch found nothing to read is ready
C10_Witness ==
    \E r \in Issued :
        /\ IsFile(r)
        /\ reqs[r].key = "bar"
        /\ fetchT[r].st = "ready"
        /\ buf[r].data = <<>>
        /\ createT[r].st = "ready"

\* ------------------------------------------------------------------------
IsPrefix(s, t) == Len(s) <= Len(t) /\ \A i \in 1 .. Len(s) : s[i] = t[i]
\* the position of the first occurrence of x in s, 0 when there is none
RECURSIVE Pos(_, _)
Pos(s, x) == IF s = <<>> THEN 0
             ELSE IF Head(s) = x THEN 1
             ELSE IF Pos(Tail(s), x) = 0 THEN 0 ELSE 1 + Pos(Tail(s), x)
InSeq(s, x) == Pos(s, x) > 0
FetchEnds(r) == r \in Issued /\ fetchT[r].st = "running" /\ fetchT'[r].st = "ready"

\* C11: the main lane starts its items in the order in which they became ready
\* (a continuation is ready when the Fetch it awaits has finished; an item
\* pushed ready is ready at submission), never an item that is not ready yet;
\* a drain returns once every ready item has been executed, whatever
\* continuations are still waiting.
C11_DrainRunsReadyItemsInReadyOrder ==
    /\ [] IsPrefix(mainLog.exec, mainLog.ready)
    /\ [][(draining /\ ~draining') => (~MainBusy /\ mainLog.exec = mainLog.ready)]_vars

\* a drain has returned while the continuation of the first request still
\* waits for its Fetch, after executing the continuation of the second
C11_Witness ==
    \E r1 \in Issued, r2 \in Issued :
        /\ r1 < r2
        /\ IsAsync(r1) /\ IsAsync(r2)
        /\ createT[r1].st = "waiting"
        /\ InSeq(mainLog.exec, TaskId(r2, "create"))
        /\ ~draining /\ everDrained

\* C12: a handle cell is written only in the step that ends the one run of a
\* request's Materialize stage on the main thread, for the cell of that
\* request; the load call and the Fetch stage leave every cell as it was, and
\* no Materialize stage runs twice.
C12_HandleWrittenOnceByMaterialize ==
    /\ [][\A c \in AllCells :
            link'[c] # link[c]
                => \E r \in Issued : /\ reqs[r].cell = c
                                     /\ Materializes(r)
                                     /\ createT[r].thread = "main"
                                     /\ seen[r].runs = 0]_vars
    /\ [][Len(reqs') > Len(reqs) => link' = link]_vars
    /\ [][(\E r \in Issued : FetchEnds(r)) => link' = link]_vars
    /\ [](\A r \in Reqs : seen[r].runs <= 1)

\* a reload: the Materialize stage of a file load has replaced the earlier
\* content of the handle, after the call and the Fetch left it alone
C12_Witness ==
    \E r \in Issued :
        /\ IsFile(r)
        /\ reqs[r].orig = PriorLink
        /\ seen[r].runs = 1 /\ seen[r].wrote
        /\ link[reqs[r].cell].id = reqs[r].key

\* C13: the handle given to load_from_file and every copy of it share one
\* cell; a Materialize stage that publishes writes the request's key and the
\* new asset into that cell, one that does not publish leaves it as it was, and
\* until some request on the cell has published the cell shows its prior state.
C13_CopiesObserveOnePublication ==
    /\ [][\A r \in Issued :
            (IsFile(r) /\ Materializes(r))
                => IF seen'[r].wrote
                   THEN /\ link'[reqs[r].cell].id = reqs[r].key
                        /\ link'[reqs[r].cell].asset.from = r
                        /\ link'[reqs[r].cell].asset.kind = reqs[r].kind
                   ELSE link'[reqs[r].cell] = link[reqs[r].cell]]_vars
    /\ [](\A c \in Cells :
            (\A r \in Issued : reqs[r].cell = c => ~seen[r].wrote) => link[c] = InitLink(c))

\* a copy of the handle is held by a second load that has not materialized
\* yet; through it the content published by the first load is visible
C13_Witness ==
    \E r1 \in Issued, r2 \in Issued :
        /\ r1 # r2
        /\ IsFile(r1) /\ IsFile(r2)
        /\ reqs[r1].cell = reqs[r2].cell
        /\ seen[r1].wrote
        /\ seen[r2].runs = 0
        /\ link[reqs[r2].cell].id = reqs[r1].key
        /\ link[reqs[r2].cell].asset.from = r1

\* C14: the Fetch closure and the Materialize closure of a request never both
\* hold a reference to the intermediate buffer (or wrapper) of that request.
C14_BufferOwnedByOneStage ==
    \A r \in Issued : IsFile(r) => ~(buf[r].fetchRef /\ buf[r].createRef)

\* C15: once a texture or shader Materialize stage has run, the pipeline holds
\* no fetched bytes; when it found a non-empty buffer it copied it, cleared the
\* buffer and dropped its reference, in this order and before constructing the
\* native resource; a mesh or material Materialize stage ends by dropping its
\* wrapper reference.
C15_MaterializeRetainsNoBytes ==
    \A r \in Issued :
        (IsFile(r) /\ seen[r].runs = 1)
            => /\ reqs[r].kind \in {"texture", "shader"}
                    => /\ buf[r].data = <<>>
                       /\ seen[r].buf.data # <<>>
                            => /\ ~buf[r].createRef
                               /\ 0 < Pos(seen[r].ops, "gfx::copy")
                               /\ Pos(seen[r].ops, "gfx::copy") < Pos(seen[r].ops, "clear")
                               /\ Pos(seen[r].ops, "clear") < Pos(seen[r].ops, "reset")
                               /\ \A x \in {"texture::texture", "shader::populate"} :
                                      InSeq(seen[r].ops, x) => Pos(seen[r].ops, "reset") < Pos(seen[r].ops, x)
               /\ reqs[r].kind \in {"mesh", "material"}
                    => /\ ~buf[r].createRef
                       /\ seen[r].ops # <<>>
                       /\ seen[r].ops[Len(seen[r].ops)] = "reset"

\* a shader was built from a non-empty buffer that is now empty and released
C15_Witness ==
    \E r \in Issued :
        /\ IsFile(r) /\ reqs[r].kind = "shader"
        /\ seen[r].runs = 1
        /\ seen[r].buf.data # <<>>
        /\ InSeq(seen[r].ops, "shader::populate")
        /\ buf[r].data = <<>> /\ ~buf[r].createRef

\* C16: a shader Materialize stage that publishes (file or memory load) leaves
\* a uniform list with exactly as many entries as the binding layer reflected,
\* entry i made from the i-th reflected handle; the list is empty when the
\* reflected count is 0.
C16_UniformsMatchReflection ==
    [][\A r \in Issued :
        (reqs[r].kind = "shader" /\ Materializes(r) /\ seen'[r].wrote)
            => LET u == link'[reqs[r].cell].asset.uniforms
                   n == seen'[r].reflected
               IN /\ Len(u) = n
                  /\ \A i \in 1 .. n : u[i] = Populate(Reflected(n)[i])]_vars

\* a file shader with all its uniforms reflected and a memory shader with none
C16_Witness ==
    \E r1 \in Issued, r2 \in Issued :
        /\ reqs[r1].kind = "shader" /\ reqs[r1].entry = "file"
        /\ seen[r1].wrote /\ seen[r1].reflected = MaxUniforms
        /\ Len(link[reqs[r1].cell].asset.uniforms) = MaxUniforms
        /\ reqs[r2].entry = "memory"
        /\ seen[r2].wrote /\ seen[r2].reflected = 0
        /\ link[reqs[r2].cell].asset.uniforms = <<>>

SameAsset(r1, r2) ==
    /\ r1 # r2
    /\ IsFile(r1) /\ IsFile(r2)
    /\ reqs[r1].key = reqs[r2].key
    /\ reqs[r1].kind = reqs[r2].kind

\* C17: every load_from_file request has a Fetch stage, a Materialize stage
\* and a buffer of its own, also when an earlier request for the same key is
\* in flight; a stage of one request that ends leaves the stages and the
\* buffer of the other request for that key as they were.
C17_SameKeyRequestsAreIndependent ==
    /\ [](\A r \in Issued : IsFile(r) => (fetchT[r].st # "none" /\ createT[r].st # "none"))
    /\ [][\A r \in Reqs :
            (r \in 1 .. Len(reqs') /\ r \notin Issued /\ reqs'[r].entry = "file")
                => /\ fetchT'[r] = FetchSubmit(reqs'[r].mode)
                   /\ buf'[r] = FreshBuf
                   /\ seen'[r].runs = 0
                   /\ \A r1 \in Issued : fetchT'[r1] = fetchT[r1] /\ createT'[r1] = createT[r1] /\ buf'[r1] = buf[r1]]_vars
    /\ [][\A r1 \in Issued, r2 \in Issued :
            (SameAsset(r1, r2) /\ (FetchEnds(r1) \/ Materializes(r1)))
                => (fetchT'[r2] = fetchT[r2] /\ createT'[r2] = createT[r2] /\ buf'[r2] = buf[r2])]_vars

\* of two requests for one key, the later one is complete while the Fetch of
\* the earlier one has not finished
C17_Witness ==
    \E r1 \in Issued, r2 \in Issued :
        /\ r1 < r2
        /\ SameAsset(r1, r2)
        /\ createT[r2].st = "ready" /\ seen[r2].wrote
        /\ fetchT[r1].st # "ready" /\ createT[r1].st = "waiting"

\* C18: the Fetch stage of a mesh load performs no builder step: until the
\* Materialize stage of the request has run, the builder has been fed nothing.
C18_MeshFetchLeavesBuilderAlone ==
    \A r \in Issued :
        (IsFile(r) /\ reqs[r].kind = "mesh" /\ seen[r].runs = 0) => buf[r].steps = <<>>

\* ------------------------------------------------------------------------
\* the camera after one more call that left it as c
Called(c) == [c EXCEPT !.calls = cam.calls + 1]

Camera_setZoomFactor ==
    /\ cam.calls < MaxCalls
    /\ \E z \in Zooms : cam' = Called(setZoomFactor(cam, z))
    /\ UNCHANGED pipeline

Camera_setFOV ==
    /\ cam.calls < MaxCalls
    /\ \E f \in Fovs : cam' = Called(setFOV(cam, f))
    /\ UNCHANGED pipeline

Camera_setProjectionWindow ==
    /\ cam.calls < MaxCalls
    /\ \E w \in Windows : cam' = Called(setProjectionWindow(cam, w))
    /\ UNCHANGED pipeline

Camera_setProjectionMode ==
    /\ cam.calls < MaxCalls
    /\ \E m \in ProjectionModes : cam' = Called(setProjectionMode(cam, m))
    /\ UNCHANGED pipeline

Camera_setNearClip ==
    /\ cam.calls < MaxCalls
    /\ \E d \in Dists : cam' = Called(setNearClip(cam, d))
    /\ UNCHANGED pipeline

Camera_setFarClip ==
    /\ cam.calls < MaxCalls
    /\ \E d \in Dists : cam' = Called(setFarClip(cam, d))
    /\ UNCHANGED pipeline

Camera_lockFrustum ==
    /\ cam.calls < MaxCalls
    /\ \E b \in BOOLEAN : cam' = Called(lockFrustum(cam, b))
    /\ UNCHANGED pipeline

Camera_setAspectRatio ==
    /\ cam.calls < MaxCalls
    /\ \E a \in Aspects, b \in BOOLEAN : cam' = Called(setAspectRatio(cam, a, b))
    /\ UNCHANGED pipeline

Camera_getProj ==
    /\ cam.calls < MaxCalls
    /\ cam' = Called(getProj(cam))
    /\ UNCHANGED pipeline

Camera_lookAt ==
    /\ cam.calls < MaxCalls
    /\ \E v \in Views \ {"identity"} : cam' = Called(lookAt(cam, v))
    /\ UNCHANGED pipeline

Camera_getFrustum ==
    /\ cam.calls < MaxCalls
    /\ cam' = Called(getFrustum(cam))
    /\ UNCHANGED pipeline

Camera_setAAData ==
    /\ cam.calls < MaxCalls
    /\ \E i \in SubpixelIndices, n \in SampleCounts : cam' = Called(setAAData(cam, i, n))
    /\ UNCHANGED pipeline

Camera_getClippingVolume ==
    /\ cam.calls < MaxCalls
    /\ cam' = Called(getClippingVolume(cam))
    /\ UNCHANGED pipeline

Camera_setViewportSize ==
    /\ cam.calls < MaxCalls
    /\ \E v \in ViewportSizes : cam' = Called(setViewportSize(cam, v))
    /\ UNCHANGED pipeline

CameraNext ==
    \/ Camera_setZoomFactor
    \/ Camera_setFOV
    \/ Camera_setProjectionWindow
    \/ Camera_setProjectionMode
    \/ Camera_setNearClip
    \/ Camera_setFarClip
    \/ Camera_lockFrustum
    \/ Camera_setAspectRatio
    \/ Camera_getProj
    \/ Camera_lookAt
    \/ Camera_getFrustum
    \/ Camera_setAAData
    \/ Camera_getClippingVolume
    \/ Camera_setViewportSize

CameraSpec == Init /\ [][CameraNext]_vars

\* C19: after any sequence of calls the near clip distance is at most the far
\* clip distance; a setNearClip above the far plane moves the far plane to the
\* same distance, a setFarClip below the near plane moves the near plane to it,
\* and any other call of the two setters leaves the other plane where it was.
C19_NearNeverAboveFar ==
    /\ [](cam.mNearClip <= cam.mFarClip)
    /\ [][\A d \in Dists :
            cam' = Called(setNearClip(cam, d))
                => /\ cam'.mNearClip = d
                   /\ cam'.mFarClip = IF d > cam.mFarClip THEN d ELSE cam.mFarClip]_vars
    /\ [][\A d \in Dists :
            cam' = Called(setFarClip(cam, d))
                => /\ cam'.mFarClip = d
                   /\ cam'.mNearClip = IF d < cam.mNearClip THEN d ELSE cam.mNearClip]_vars

\* the first call on a new camera was a setNearClip beyond the far plane,
\* which took the far plane along
C19_Witness ==
    /\ cam.calls = 1
    /\ cam.mNearClip = 20000
    /\ cam.mFarClip = 20000

\* C20: on a camera whose frustum is not locked, getFrustum returns a frustum
\* computed from the current view and the projection matrix of the current
\* settings, whatever setters were called before.
C20_FrustumFollowsProjection ==
    ~cam.mFrustumLocked
        => getFrustum(cam).mFrustum = Frustum(cam.mView, CurrentProj(cam))

\* C21: getProj returns the matrix of the camera's current settings and leaves
\* mProjectionDirty and mAspectDirty cleared, whatever setters were called
\* before; when neither flag is set it changes nothing and returns the matrix
\* it already holds.
C21_GetProjNeverStale ==
    /\ getProj(cam).mProj = CurrentProj(cam)
    /\ ~getProj(cam).mProjectionDirty
    /\ ~getProj(cam).mAspectDirty
    /\ (~cam.mProjectionDirty /\ ~cam.mAspectDirty) => getProj(cam) = cam
    /\ getProj(getProj(cam)) = getProj(cam)

\* after a change of mode, zoom factor and jitter, getProj has produced the
\* orthographic matrix of the new settings
C21_Witness ==
    /\ cam.mProjectionMode = "Orthographic"
    /\ cam.mZoomFactor = MaxZoomFactor
    /\ cam.mAAData[3] # 0
    /\ ~cam.mProjectionDirty /\ ~cam.mAspectDirty
    /\ cam.mProj = Ortho(cam)

\* the frustum was built from other settings than the current view, mode,
\* field of view, clip planes, aspect ratio, window and zoom factor
FrustumInputsChanged(c) ==
    \/ c.mFrustum.view # c.mView
    \/ [c.mFrustum.proj EXCEPT !.aa = <<0, 0>>] # [CurrentProj(c) EXCEPT !.aa = <<0, 0>>]

NearestZoom(z) ==
    IF z < MinZoomFactor THEN MinZoomFactor ELSE IF z > MaxZoomFactor THEN MaxZoomFactor ELSE z

\* C23: the stored zoom factor always lies in [MinZoomFactor, MaxZoomFactor];
\* setZoomFactor stores an argument inside the range as given and the nearest
\* bound for one outside, and setViewportSize stores its estimate the same way.
C23_ZoomFactorClamped ==
    /\ [](MinZoomFactor <= cam.mZoomFactor /\ cam.mZoomFactor <= MaxZoomFactor)
    /\ [][\A z \in Zooms :
            cam' = Called(setZoomFactor(cam, z)) => cam'.mZoomFactor = NearestZoom(z)]_vars
    /\ [][\A v \in ViewportSizes :
            cam' = Called(setViewportSize(cam, v))
                => /\ cam'.mViewportSize = v
                   /\ cam'.mZoomFactor =
                          NearestZoom((ViewDepth(cam.mView) * 10000 * cam.mFOV) \div (v[2] * 45))]_vars

\* a viewport size has been set, and a zoom factor beyond the range was
\* stored as the upper bound
C23_Witness ==
    /\ cam.mViewportSize # <<0, 0>>
    /\ cam.mZoomFactor = MaxZoomFactor

\* C24: setFOV, setNearClip, setFarClip and setProjectionMode called with the
\* value the camera holds change no field; setAspectRatio called with the
\* current ratio changes the aspect-locked flag and nothing else.
C24_SameValueSettersChangeNothing ==
    /\ setFOV(cam, cam.mFOV) = cam
    /\ setNearClip(cam, cam.mNearClip) = cam
    /\ setFarClip(cam, cam.mFarClip) = cam
    /\ setProjectionMode(cam, cam.mProjectionMode) = cam
    /\ \A b \in BOOLEAN :
          setAspectRatio(cam, cam.mAspectRatio, b) = [cam EXCEPT !.mAspectLocked = b]

\* the matrices and the frustum are up to date, after settings were changed,
\* and the last call was a setAspectRatio that only locked the aspect ratio
C24_Witness ==
    /\ ~cam.mProjectionDirty /\ ~cam.mAspectDirty /\ ~cam.mFrustumDirty
    /\ cam.mFOV = 90
    /\ cam.mNearClip = cam.mFarClip
    /\ cam.mAspectLocked

\* ------------------------------------------------------------------------
\* the calls made on the mesh of one load, in the order of the two closures
MeshOrder == BuilderSteps \o <<"build_vb", "build_ib">>
IsMesh(r) == IsFile(r) /\ reqs[r].kind = "mesh"

\* C25: the calls made on the mesh of a load are, in this order, prepare_mesh,
\* set_vertex_source, add_primitives, bind_skin, bind_armature, end_prepare,
\* build_vb, build_ib; end_prepare has returned when the Materialize stage
\* starts; the status is read after build_ib and the handle is written, if at
\* all, after that; in both modes and wherever the Fetch stage runs.
C25_MeshBuilderOrder ==
    \A r \in Issued :
        IsMesh(r)
            => /\ IsPrefix(buf[r].steps, MeshOrder)
               /\ createT[r].st = "running" => buf[r].steps = BuilderSteps
               /\ seen[r].runs = 1
                    => /\ buf[r].steps = MeshOrder
                       /\ SubSeq(seen[r].ops, 1, 3) = <<"build_vb", "build_ib", "get_status">>
                       /\ InSeq(seen[r].ops, "write") => Pos(seen[r].ops, "get_status") < Pos(seen[r].ops, "write")
               /\ seen[r].runs = 0 => ~seen[r].wrote

\* an asynchronous mesh load whose Fetch ran on a worker thread is published
C25_Witness ==
    \E r \in Issued :
        /\ IsMesh(r) /\ IsAsync(r)
        /\ fetchT[r].thread = "worker"
        /\ seen[r].runs = 1 /\ seen[r].wrote
        /\ buf[r].steps = MeshOrder

CreateId(r) == TaskId(r, "create")
\* two asynchronous loads on one cell, both of which have published
BothPublished(r1, r2) ==
    /\ r1 # r2
    /\ IsAsync(r1) /\ IsAsync(r2)
    /\ reqs[r1].cell = reqs[r2].cell
    /\ seen[r1].wrote /\ seen[r2].wrote

\* C26: when two asynchronous loads on one handle cell have both published,
\* the cell holds the key and the asset of the one whose Materialize stage ran
\* later, and the Materialize stages ran in the order in which the two Fetch
\* stages finished.
C26_LastMaterializeWins ==
    \A r1 \in Issued, r2 \in Issued :
        (BothPublished(r1, r2) /\ Pos(mainLog.exec, CreateId(r1)) < Pos(mainLog.exec, CreateId(r2)))
            => /\ link[reqs[r2].cell].id = reqs[r2].key
               /\ link[reqs[r2].cell].asset.from = r2
               /\ Pos(mainLog.ready, CreateId(r1)) < Pos(mainLog.ready, CreateId(r2))

\* the load issued first is the one whose result remains: its Fetch finished
\* after the Fetch of the load issued second
C26_Witness ==
    \E r1 \in Issued, r2 \in Issued :
        /\ r1 < r2
        /\ BothPublished(r1, r2)
        /\ reqs[r1].key # reqs[r2].key \/ reqs[r1].kind # reqs[r2].kind
        /\ Pos(mainLog.exec, CreateId(r2)) < Pos(mainLog.exec, CreateId(r1))
        /\ link[reqs[r1].cell].asset.from = r1
        /\ link[reqs[r1].cell].id = reqs[r1].key

\* C27: every handle cell is either in its state from before the loads or
\* holds an id and an asset written by one and the same Materialize run of a
\* load on that cell.
C27_IdAndAssetFromOneRun ==
    \A c \in AllCells :
        \/ link[c] = InitLink(c)
        \/ \E r \in Issued :
              /\ reqs[r].cell = c
              /\ seen[r].wrote
              /\ link[c].id \in KeyReads(reqs[r])
              /\ link[c].asset.from = r
              /\ link[c].asset.kind = reqs[r].kind

\* a reloaded handle holds the result of the second of two loads of different
\* kinds of content, the first of which had published before
C27_Witness ==
    \E r1 \in Issued, r2 \in Issued :
        /\ r1 # r2
        /\ reqs[r1].cell = reqs[r2].cell
        /\ reqs[r1].orig = PriorLink
        /\ reqs[r1].kind # reqs[r2].kind
        /\ seen[r1].wrote /\ seen[r2].wrote
        /\ link[reqs[r2].cell].id = reqs[r2].key
        /\ link[reqs[r2].cell].asset.from = r2

\* C28: a load_from_memory<shader> whose data is null or whose size is 0 makes
\* no gfx::copy call and leaves its handle empty.
C28_EmptyInputMakesNoCall ==
    \A r \in Issued :
        (reqs[r].entry = "memory" /\ seen[r].runs = 1 /\ (~reqs[r].data \/ reqs[r].size = 0))
            => /\ ~InSeq(seen[r].ops, "gfx::copy")
               /\ link[reqs[r].cell] = EmptyLink

====
